---------------------------- MODULE Spec2Model ----------------------------
(***************************************************************************)
(* A model of completion_util::future::block_on                           *)
(* (src/util/src/future/block_on.rs): the blocking driver, its Parker /   *)
(* Waker pair over one shared WakerInner, the per-thread CACHE, and the   *)
(* OS primitives std::thread::park / Thread::unpark it is built on.       *)
(*                                                                         *)
(* One driver thread runs block_on calls (nested calls are made from      *)
(* inside a poll of the enclosing call's future).  Any number of other    *)
(* threads hold clones of the Waker and run waker_wake / waker_wake_by_ref *)
(* / waker_drop on them; since those threads are interchangeable, the     *)
(* handles they hold are counted per pair and per position in the vtable  *)
(* function they are executing.  Every access to shared memory (an atomic *)
(* swap, a reference count update, an unpark, a thread::park) is one step.*)
(***************************************************************************)
EXTENDS Naturals, Sequences, FiniteSets

\* ------------------------------------------------------------------ bounds
\* Spec: block_on calls made one after the other on the driver thread.
MaxCalls == 2
\* Spec: "not yet" reports an operation gives before it completes.
MaxPending == 1
\* Spec: Waker clones the polled operations hand to other threads, plus the
\* wake_by_ref calls after which a thread keeps its clone for another use.
MaxClones == 3
\* Spec: spurious returns of std::thread::park.
MaxSpurious == 1
\* NestSpec: nesting depth of block_on calls, and calls, clones, reports.
MaxDepth == 2
NestCalls == 2
NestClones == 2
NestPending == 1
\* LiveSpec: calls, reports per operation, clones per poll and held by other
\* threads at a time, spurious returns.
LiveCalls == 1
LivePending == 2
LiveHandles == 1
LiveSpurious == 1

\* ThreadSpec: threads, block_on calls made by all of them together, and
\* Waker clones made.
MaxThreads == 2
ThreadCalls == 2
ThreadClones == 2

\* WrapSpec: results an inner future or stream gives before its last one,
\* and the values and Contexts these are drawn from.
WrapLen == 2
WrapValues == 2

\* WakerInner allocations that can be live at once: the cached pair, and one
\* per nested call (a transient pair can outlive its call through a clone).
MaxPairs == MaxDepth + 1
Pairs == 1..MaxPairs

\* An operation: it reports "not yet" `need` times and then completes, or
\* (never) reports "not yet" at every poll.
NeverOp == [need |-> 0, never |-> TRUE]
OpsUpTo(n) == [need : 0..n, never : {FALSE}]

VARIABLES
    \* -- WakerInner, per allocation (block_on.rs 81-84, and the Arc around it)
    strong,     \* Arc strong count; 0: not allocated (or released)
    woken,      \* WakerInner::woken
    \* -- Waker clones in the hands of other threads
    held,       \* clones not inside a vtable call
    wakingV,    \* waker_wake calls past a swap that read false: unpark is next
    wakingR,    \* waker_wake_by_ref calls (handle kept) at that same place
    dropping,   \* waker_wake calls past waker_wake_by_ref: waker_drop is next
    \* -- the driver thread
    token,      \* the thread's park token (std::thread::park / unpark)
    cacheInit,  \* the thread_local CACHE has been initialised
    cachePair,  \* the pair CACHE holds (0 before initialisation)
    cacheBorrowed, \* the RefCell's mutable borrow is taken
    stack,      \* the active block_on calls, outermost first
    \* -- history (not read by any action's guard except the bounds)
    last,       \* the most recent block_on return
    calls, clones, spurious,  \* counters for the bounds
    wakesSince, \* per pair: wake swaps since the last swap of park()
    unparksSince, \* per pair: those of them that went on to call unpark
    \* -- lib.rs: a MustComplete / AssertCompletes value being polled
    wrap,
    \* -- ThreadSpec: block_on called on several threads
    threads,    \* per thread: its CACHE, its park token, its active calls
    inners,     \* per allocation: the WakerInner and who refers to it
    tcount      \* counters for the bounds

threadVars == << threads, inners, tcount >>

\* The state that the one-thread model of block_on does not touch.
auxVars == << wrap, threadVars >>

\* The state of block_on, its pairs and the clones.
driverVars == << strong, woken, held, wakingV, wakingR, dropping, token,
                 cacheInit, cachePair, cacheBorrowed, stack, last, calls,
                 clones, spurious, wakesSince, unparksSince >>

vars == << strong, woken, held, wakingV, wakingR, dropping, token, cacheInit,
           cachePair, cacheBorrowed, stack, last, calls, clones,
           spurious, wakesSince, unparksSince, wrap, threads, inners,
           tcount >>

pairVars == << strong, woken, held, wakingV, wakingR, dropping, wakesSince,
               unparksSince >>
wakerVars == << held, wakingV, wakingR, dropping >>
cacheVars == << cacheInit, cachePair, cacheBorrowed >>
boundVars == << calls, clones, spurious >>

Depth == Len(stack)
Top == stack[Depth]
NoReturn == [depth |-> 0]

\* ------------------------------------------------------------- WakerInner

\* An allocation not in use: Arc::new can return it.
Free(p) == strong[p] = 0

\* The allocator's choice is not observable: take the lowest free one.
FreshPair == CHOOSE p \in Pairs : Free(p) /\ \A q \in Pairs : Free(q) => p <= q

\* Mutant: the flag is created set.
wake_pairWoken(p) ==
    /\ strong' = [strong EXCEPT ![p] = 2]
    /\ woken' = [woken EXCEPT ![p] = TRUE]
    /\ wakesSince' = [wakesSince EXCEPT ![p] = 0]
    /\ unparksSince' = [unparksSince EXCEPT ![p] = 0]

\* wake_pair(): Arc::new(WakerInner { woken: false, .. }), one Arc in the
\* Parker (Arc::clone) and one in the Waker (Arc::into_raw).
wake_pair(p) ==
    /\ strong' = [strong EXCEPT ![p] = 2]
    /\ woken' = [woken EXCEPT ![p] = FALSE]
    /\ wakesSince' = [wakesSince EXCEPT ![p] = 0]
    /\ unparksSince' = [unparksSince EXCEPT ![p] = 0]

\* Mutant: releasing an owner also resets the flag.
ArcDropClears(p, n) ==
    /\ strong' = [strong EXCEPT ![p] = @ - n]
    /\ woken' = [woken EXCEPT ![p] = FALSE]
    /\ IF strong[p] = n
          THEN /\ wakesSince' = [wakesSince EXCEPT ![p] = 0]
               /\ unparksSince' = [unparksSince EXCEPT ![p] = 0]
          ELSE UNCHANGED << wakesSince, unparksSince >>

\* Mutant: one Arc is dropped whatever the number of owners that go away (the
\* returning call leaks its Waker).
ArcDropLeak(p, n) ==
    /\ strong' = [strong EXCEPT ![p] = @ - 1]
    /\ IF strong[p] = 1
          THEN /\ woken' = [woken EXCEPT ![p] = FALSE]
               /\ wakesSince' = [wakesSince EXCEPT ![p] = 0]
               /\ unparksSince' = [unparksSince EXCEPT ![p] = 0]
          ELSE UNCHANGED << woken, wakesSince, unparksSince >>

\* n Arcs of allocation p are dropped; the WakerInner is released with the
\* last one (its fields are then no state of the program).
ArcDrop(p, n) ==
    /\ strong' = [strong EXCEPT ![p] = @ - n]
    /\ IF strong[p] = n
          THEN /\ woken' = [woken EXCEPT ![p] = FALSE]
               /\ wakesSince' = [wakesSince EXCEPT ![p] = 0]
               /\ unparksSince' = [unparksSince EXCEPT ![p] = 0]
          ELSE UNCHANGED << woken, wakesSince, unparksSince >>

\* No MustComplete / AssertCompletes value is under test.
NoWrap == [impl |-> "none"]

\* The driver thread before its first block_on call.
DriverInit ==
    /\ strong = [p \in Pairs |-> 0]
    /\ woken = [p \in Pairs |-> FALSE]
    /\ held = [p \in Pairs |-> 0]
    /\ wakingV = [p \in Pairs |-> 0]
    /\ wakingR = [p \in Pairs |-> 0]
    /\ dropping = [p \in Pairs |-> 0]
    /\ token = FALSE
    /\ cacheInit = FALSE
    /\ cachePair = 0
    /\ cacheBorrowed = FALSE
    /\ stack = << >>
    /\ last = NoReturn
    /\ calls = 0 /\ clones = 0 /\ spurious = 0
    /\ wakesSince = [p \in Pairs |-> 0]
    /\ unparksSince = [p \in Pairs |-> 0]

\* ThreadSpec: the threads that can call block_on or hold a clone, and the
\* WakerInner allocations (a call creates at most one).
Threads == 1..MaxThreads
TPairs == 1..ThreadCalls

\* An allocation not in use.
NoInner == [ live |-> FALSE, woken |-> FALSE, sleeping_thread |-> 0,
             creator |-> 0, parkers |-> 0, clones |-> 0 ]

\* No thread has called block_on yet.
ThreadsInit ==
    /\ threads = [t \in Threads |-> [ cache |-> 0, borrowed |-> FALSE,
                                      token |-> FALSE, stack |-> << >> ]]
    /\ inners = [p \in TPairs |-> NoInner]
    /\ tcount = [calls |-> 0, clones |-> 0]

Init ==
    /\ DriverInit
    /\ wrap = NoWrap
    /\ ThreadsInit


\* ------------------------------------------------- the driver: block_on

\* Mutant: the borrow is taken whether or not it is outstanding.
TryBorrowMutAlways(borrowed) == TRUE

\* Mutant: the cached pair is never taken (every call makes its own pair).
TryBorrowMutNever(borrowed) == FALSE

\* RefCell::try_borrow_mut is Ok exactly when no borrow is outstanding.
TryBorrowMut(borrowed) == ~borrowed

\* Mutant: the loop parks before it polls.
LoopEntryParkFirst == "park"

\* Where block_on's `loop` starts: at the poll (line 46).
LoopEntry == "poll"

\* A frame of block_on as it enters its loop on pair p, driving operation op
\* whose output is v.
NewFrame(p, isCached, op, v) ==
    [ pair |-> p,            \* the pair `parker` and `waker` refer to
      cached |-> isCached,   \* TRUE: guard_storage holds the RefMut
      pc |-> LoopEntry,      \* poll | polling | park | suspend
      value |-> v,           \* what the operation's poll yields when Ready
      need |-> op.need,      \* "not yet" reports it gives before that
      never |-> op.never,    \* TRUE: it never completes
      polls |-> 0,           \* polls of the operation made by this call
      parks |-> 0,           \* parker.park() calls made by this call
      swaps |-> 0,           \* swaps made by the latest park() call
      pre |-> FALSE,         \* a wake's swap preceded the latest park() call
                             \* and followed the return of the one before
      many |-> FALSE,        \* the latest park() call to return found two
                             \* or more wake swaps since park()'s last swap
      clean |-> FALSE,       \* in park(): no wake step and no spurious
                             \* return since park() was called
      clonesPoll |-> 0 ]     \* Waker clones made by the poll in progress

Push(f) == stack' = Append(stack, f)
SetTop(f) == stack' = [stack EXCEPT ![Depth] = f]

\* A wake step or a spurious return ends a park() call's "clean" run.
Disturbed == IF Depth > 0 /\ Top.clean
                THEN [stack EXCEPT ![Depth].clean = FALSE]
                ELSE stack

\* block_on(future), up to the loop (lines 21-43).  Called by the thread's
\* own code (Depth = 0) or from inside a poll of the enclosing call's future.
\* CACHE.with initialises the thread_local on first use.  The operation of
\* the k-th call completes with output k.
BlockOn(op, maxDepth, maxCalls) ==
    /\ UNCHANGED auxVars
    /\ calls < maxCalls
    /\ Depth < maxDepth
    /\ Depth > 0 => Top.pc = "polling"
    /\ calls' = calls + 1
    /\ IF ~cacheInit
          THEN /\ \E p \in Pairs : Free(p)
               /\ wake_pair(FreshPair)
               /\ cacheInit' = TRUE
               /\ cachePair' = FreshPair
               /\ cacheBorrowed' = TRUE
               /\ Push(NewFrame(FreshPair, TRUE, op, calls + 1))
          ELSE IF TryBorrowMut(cacheBorrowed)
          THEN /\ cacheBorrowed' = TRUE
               /\ Push(NewFrame(cachePair, TRUE, op, calls + 1))
               /\ UNCHANGED << strong, woken, wakesSince, unparksSince,
                               cacheInit, cachePair >>
          ELSE /\ \E p \in Pairs : Free(p)
               /\ wake_pair(FreshPair)
               /\ Push(NewFrame(FreshPair, FALSE, op, calls + 1))
               /\ UNCHANGED cacheVars
    /\ UNCHANGED << wakerVars, token, last, clones, spurious >>

\* fut.as_mut().poll(&mut cx) is entered (line 46): the operation now has
\* the Waker.
PollBegin ==
    /\ UNCHANGED auxVars
    /\ Depth > 0 /\ Top.pc = "poll"
    /\ SetTop([Top EXCEPT !.pc = "polling", !.polls = @ + 1,
                          !.clonesPoll = 0])
    /\ UNCHANGED << pairVars, token, cacheVars, last, boundVars >>

\* Waker clones that other threads hold, on all pairs.
LiveClones ==
    LET Sum[n \in 0..MaxPairs] ==
            IF n = 0 THEN 0
            ELSE Sum[n - 1] + held[n] + wakingV[n] + wakingR[n] + dropping[n]
    IN  Sum[MaxPairs]

\* waker_clone (lines 86-91), called by the operation during its poll; the
\* clone goes to another thread.
waker_clone(maxClones, maxPerPoll, maxLive) ==
    /\ UNCHANGED auxVars
    /\ Depth > 0 /\ Top.pc = "polling"
    /\ clones < maxClones
    /\ Top.clonesPoll < maxPerPoll
    /\ LiveClones < maxLive
    /\ clones' = clones + 1
    /\ strong' = [strong EXCEPT ![Top.pair] = @ + 1]
    /\ held' = [held EXCEPT ![Top.pair] = @ + 1]
    /\ SetTop([Top EXCEPT !.clonesPoll = @ + 1])
    /\ UNCHANGED << woken, wakingV, wakingR, dropping, wakesSince,
                    unparksSince, token, cacheVars, last, calls, spurious >>

\* What the poll in progress of frame f's operation returns.
PollResult(f) == IF ~f.never /\ f.polls > f.need THEN "Ready" ELSE "Pending"

\* Mutant: block_on returns after any poll.
LoopReturnsAlways(result) == TRUE

\* `if let Poll::Ready(output) = .. { return output; }` (lines 46-48).
LoopReturns(result) == result = "Ready"

\* Mutant: the output is lost for a default.
BlockOnOutputDefault(output) == 0

\* What block_on returns when the poll yielded Poll::Ready(output) (line 47).
BlockOnOutput(output) == output

\* The poll does not make block_on return: parker.park() is called (line 49).
\* minClones is the environment's promise of wakes per "not yet" report.
PollPending(minClones) ==
    /\ UNCHANGED auxVars
    /\ Depth > 0 /\ Top.pc = "polling"
    /\ ~LoopReturns(PollResult(Top))
    /\ Top.clonesPoll >= minClones
    /\ SetTop([Top EXCEPT !.pc = "park", !.swaps = 0, !.clean = TRUE,
                          !.pre = wakesSince[Top.pair] > 0,
                          !.clonesPoll = 0])
    /\ UNCHANGED << pairVars, token, cacheVars, last, boundVars >>

\* Mutant: the RefMut is leaked (mem::forget) when the call returns.
PollReadyKeepsBorrow ==
    /\ UNCHANGED auxVars
    /\ Depth > 0 /\ Top.pc = "polling"
    /\ LoopReturns(PollResult(Top))
    /\ last' = [ depth |-> Depth, out |-> BlockOnOutput(Top.value),
                 value |-> Top.value, need |-> Top.need,
                 polls |-> Top.polls, parks |-> Top.parks,
                 pair |-> Top.pair ]
    /\ stack' = SubSeq(stack, 1, Depth - 1)
    /\ IF Top.cached
          THEN UNCHANGED << strong, woken, wakesSince, unparksSince >>
          ELSE ArcDrop(Top.pair, 2)
    /\ UNCHANGED << wakerVars, token, cacheVars, boundVars >>

\* The poll makes block_on return its output (line 47).  Leaving the closure
\* drops new_pair_storage (the Parker's Arc, then the Waker through
\* waker_drop) or guard_storage (the RefMut).
PollReady ==
    /\ UNCHANGED auxVars
    /\ Depth > 0 /\ Top.pc = "polling"
    /\ LoopReturns(PollResult(Top))
    /\ last' = [ depth |-> Depth, out |-> BlockOnOutput(Top.value),
                 value |-> Top.value, need |-> Top.need,
                 polls |-> Top.polls, parks |-> Top.parks,
                 pair |-> Top.pair ]
    /\ stack' = SubSeq(stack, 1, Depth - 1)
    /\ IF Top.cached
          THEN /\ cacheBorrowed' = FALSE
               /\ UNCHANGED << strong, woken, wakesSince, unparksSince >>
          ELSE /\ ArcDrop(Top.pair, 2)
               /\ UNCHANGED cacheBorrowed
    /\ UNCHANGED << wakerVars, token, cacheInit, cachePair, boundVars >>

\* ------------------------------------------------------- Parker::park

\* Mutant: a load for the swap: the flag is read and not cleared.
ParkStoreLoad(old) == old

\* The value swap(false, SeqCst) leaves in woken (line 75).
ParkStore(old) == FALSE

\* Mutant: `if` for `while`: one suspend/resume cycle is trusted.
ParkExitsOnce(prev, n) == prev \/ n > 0

\* `while !swap(..)`: the loop is left when the swap returned true, however
\* many times (n) thread::park() has returned in this call.
ParkExits(prev, n) == prev

\* Mutant: the loop spins instead of suspending the thread.
LoopBodySpin == "park"

\* The loop's body (line 76): thread::park() is called.
LoopBody == "suspend"

\* One evaluation of the loop condition of park() (line 75): the swap, then
\* either the return to block_on's loop or the call of thread::park().
ParkSwap ==
    /\ UNCHANGED auxVars
    /\ Depth > 0 /\ Top.pc = "park"
    /\ woken' = [woken EXCEPT ![Top.pair] = ParkStore(@)]
    /\ wakesSince' = [wakesSince EXCEPT ![Top.pair] = 0]
    /\ unparksSince' = [unparksSince EXCEPT ![Top.pair] = 0]
    /\ IF ParkExits(woken[Top.pair], Top.swaps)
          THEN SetTop([Top EXCEPT !.pc = "poll", !.swaps = @ + 1,
                                  !.parks = IF Top.swaps = 0 THEN @ + 1 ELSE @,
                                  !.many = wakesSince[Top.pair] >= 2,
                                  !.clean = FALSE])
          ELSE SetTop([Top EXCEPT !.pc = LoopBody, !.swaps = @ + 1,
                                  !.parks = IF Top.swaps = 0 THEN @ + 1 ELSE @])
    /\ UNCHANGED << strong, wakerVars, token, cacheVars, last, boundVars >>

\* std::thread::park() returns because the thread's token is set, and
\* consumes it (line 76).
ThreadParkReturn ==
    /\ UNCHANGED auxVars
    /\ Depth > 0 /\ Top.pc = "suspend"
    /\ token
    /\ token' = FALSE
    /\ SetTop([Top EXCEPT !.pc = "park"])
    /\ UNCHANGED << pairVars, cacheVars, last, boundVars >>

\* std::thread::park() returns spuriously, as its documentation allows.
ThreadParkSpurious(maxSpurious) ==
    /\ UNCHANGED auxVars
    /\ Depth > 0 /\ Top.pc = "suspend"
    /\ spurious < maxSpurious
    /\ spurious' = spurious + 1
    /\ SetTop([Top EXCEPT !.pc = "park", !.clean = FALSE])
    /\ UNCHANGED << pairVars, token, cacheVars, last, calls, clones >>

\* ------------------------------------------- the Waker's vtable functions

\* Mutant: a load for the swap: the flag is read and not set.
WakeStoreLoad(old) == old

\* The value swap(true, SeqCst) leaves in woken (line 98).
WakeStore(old) == TRUE

\* Mutant: the negation is lost: only a wake that finds the flag set resumes.
WakeUnparksIfSet(prev) == prev

\* Mutant: every wake resumes the thread.
WakeUnparksAlways(prev) == TRUE

\* `if !swap(..)`: unpark is called when the swap returned false.
WakeUnparks(prev) == ~prev

\* The swap of waker_wake_by_ref (line 98), run by a thread holding a clone:
\* byValue for waker_wake (which drops the clone afterwards), otherwise
\* wake_by_ref on a clone the thread keeps (such uses count as clones do,
\* and maxUses bounds them).
WakeSwap(p, byValue, maxUses) ==
    /\ UNCHANGED auxVars
    /\ held[p] > 0
    /\ byValue \/ clones < maxUses
    /\ clones' = IF byValue THEN clones ELSE clones + 1
    /\ woken' = [woken EXCEPT ![p] = WakeStore(@)]
    /\ wakesSince' = [wakesSince EXCEPT ![p] = @ + 1]
    /\ IF WakeUnparks(woken[p])
          THEN /\ unparksSince' = [unparksSince EXCEPT ![p] = @ + 1]
               /\ held' = [held EXCEPT ![p] = @ - 1]
               /\ IF byValue
                     THEN /\ wakingV' = [wakingV EXCEPT ![p] = @ + 1]
                          /\ UNCHANGED wakingR
                     ELSE /\ wakingR' = [wakingR EXCEPT ![p] = @ + 1]
                          /\ UNCHANGED wakingV
               /\ UNCHANGED dropping
          ELSE /\ IF byValue
                     THEN /\ held' = [held EXCEPT ![p] = @ - 1]
                          /\ dropping' = [dropping EXCEPT ![p] = @ + 1]
                     ELSE UNCHANGED << held, dropping >>
               /\ UNCHANGED << unparksSince, wakingV, wakingR >>
    /\ stack' = Disturbed
    /\ UNCHANGED << strong, token, cacheVars, last, calls, spurious >>

\* inner.sleeping_thread.unpark() (line 99): sets the driver thread's token.
WakeUnpark(p, byValue) ==
    /\ UNCHANGED auxVars
    /\ IF byValue
          THEN /\ wakingV[p] > 0
               /\ wakingV' = [wakingV EXCEPT ![p] = @ - 1]
               /\ dropping' = [dropping EXCEPT ![p] = @ + 1]
               /\ UNCHANGED << held, wakingR >>
          ELSE /\ wakingR[p] > 0
               /\ wakingR' = [wakingR EXCEPT ![p] = @ - 1]
               /\ held' = [held EXCEPT ![p] = @ + 1]
               /\ UNCHANGED << dropping, wakingV >>
    /\ token' = TRUE
    /\ stack' = Disturbed
    /\ UNCHANGED << strong, woken, wakesSince, unparksSince, cacheVars, last,
                    boundVars >>

\* Mutant: waker_wake returns after waker_wake_by_ref and leaks its handle.
WakeDropLeak(p) ==
    /\ UNCHANGED auxVars
    /\ dropping[p] > 0
    /\ dropping' = [dropping EXCEPT ![p] = @ - 1]
    /\ UNCHANGED << strong, woken, wakesSince, unparksSince, held, wakingV,
                    wakingR, token, cacheVars, stack, last, boundVars >>

\* waker_drop at the end of waker_wake (line 94).
WakeDrop(p) ==
    /\ UNCHANGED auxVars
    /\ dropping[p] > 0
    /\ dropping' = [dropping EXCEPT ![p] = @ - 1]
    /\ ArcDrop(p, 1)
    /\ UNCHANGED << held, wakingV, wakingR, token, cacheVars, stack, last,
                    boundVars >>

\* waker_drop (lines 102-104) of a clone that is dropped without a wake.
waker_drop(p) ==
    /\ UNCHANGED auxVars
    /\ held[p] > 0
    /\ held' = [held EXCEPT ![p] = @ - 1]
    /\ ArcDrop(p, 1)
    /\ UNCHANGED << wakingV, wakingR, dropping, token, cacheVars, stack,
                    last, boundVars >>

\* ------------------------------- lib.rs: MustComplete and AssertCompletes

\* What a poll returns: Poll::Pending, Poll::Ready(v) of a future, and
\* Poll::Ready(Some(v)), Poll::Ready(None) of a stream.
Pending == [tag |-> "Pending", val |-> 0]
Ready(v) == [tag |-> "Ready", val |-> v]
ReadySome(v) == [tag |-> "Some", val |-> v]
ReadyNone == [tag |-> "None", val |-> 0]

Values == 1..WrapValues
\* The Contexts a caller can pass (told apart by their Waker).
Contexts == 1..WrapValues

\* The inner operation T is any future or stream: it is given by the
\* results its polls return, in order, up to its last one.
FutureScripts ==
    { [i \in 1..(k + 1) |-> IF i <= k THEN Pending ELSE Ready(v)] :
          k \in 0..WrapLen, v \in Values }
StreamScripts ==
    LET Step == {Pending} \cup { ReadySome(v) : v \in Values }
    IN  UNION { { [i \in 1..(k + 1) |-> IF i <= k THEN pre[i] ELSE ReadyNone] :
                      pre \in [1..k -> Step] } : k \in 0..WrapLen }

\* T before its first poll; exact: its size_hint counts the items left
\* (otherwise it is the default (0, None)).
NewInner(script, exact) ==
    [script |-> script, pos |-> 0, cx |-> 0, exact |-> exact]

\* T::poll / T::poll_next (cx): the next result; T has seen cx.
InnerPoll(st, cx) ==
    [ state |-> [st EXCEPT !.pos = @ + 1, !.cx = cx],
      result |-> st.script[st.pos + 1] ]

\* T::size_hint(): (lo, Some(hi)) or (lo, None).
InnerSizeHint(st) ==
    LET left == Cardinality({ i \in (st.pos + 1)..Len(st.script) :
                                 st.script[i].tag = "Some" })
    IN  IF st.exact THEN [lo |-> left, hi |-> left, some |-> TRUE]
                    ELSE [lo |-> 0, hi |-> 0, some |-> FALSE]

\* impl CompletionFuture for MustComplete<T: Future> (lib.rs 177-183).
MustComplete_poll(self, cx) ==
    LET r == InnerPoll(self.inner, cx)
    IN  [self |-> [self EXCEPT !.inner = r.state], result |-> r.result]

\* impl CompletionStream for MustComplete<T: Stream> (lib.rs 185-194).
MustComplete_poll_next(self, cx) ==
    LET r == InnerPoll(self.inner, cx)
    IN  [self |-> [self EXCEPT !.inner = r.state], result |-> r.result]

\* Mutant: size_hint is not forwarded (the trait's default is returned).
MustComplete_size_hintDefault(self) == [lo |-> 0, hi |-> 0, some |-> FALSE]

MustComplete_size_hint(self) == InnerSizeHint(self.inner)

\* Mutant: the inner future is polled with a Context of the adapter's own.
AssertCompletes_Future_pollOwnContext(self, cx) ==
    LET r == InnerPoll(self.inner, 0)
    IN  [self |-> [self EXCEPT !.inner = r.state], result |-> r.result]

\* impl Future for AssertCompletes<T: CompletionFuture> (lib.rs 100-106).
AssertCompletes_Future_poll(self, cx) ==
    LET r == InnerPoll(self.inner, cx)
    IN  [self |-> [self EXCEPT !.inner = r.state], result |-> r.result]

\* impl CompletionFuture for AssertCompletes<T> (lib.rs 107-113).
AssertCompletes_CompletionFuture_poll(self, cx) ==
    LET r == InnerPoll(self.inner, cx)
    IN  [self |-> [self EXCEPT !.inner = r.state], result |-> r.result]

\* impl Stream for AssertCompletes<T: CompletionStream> (lib.rs 114-123).
AssertCompletes_Stream_poll_next(self, cx) ==
    LET r == InnerPoll(self.inner, cx)
    IN  [self |-> [self EXCEPT !.inner = r.state], result |-> r.result]

AssertCompletes_Stream_size_hint(self) == InnerSizeHint(self.inner)

\* impl CompletionStream for AssertCompletes<T> (lib.rs 124-133).
AssertCompletes_CompletionStream_poll_next(self, cx) ==
    LET r == InnerPoll(self.inner, cx)
    IN  [self |-> [self EXCEPT !.inner = r.state], result |-> r.result]

AssertCompletes_CompletionStream_size_hint(self) == InnerSizeHint(self.inner)

\* The trait implementations, by wrapper and trait.
MustCompleteImpls ==
    { "MustComplete as CompletionFuture", "MustComplete as CompletionStream" }
AssertCompletesImpls ==
    { "AssertCompletes as Future", "AssertCompletes as CompletionFuture",
      "AssertCompletes as Stream", "AssertCompletes as CompletionStream" }
FutureImpls ==
    { "MustComplete as CompletionFuture", "AssertCompletes as Future",
      "AssertCompletes as CompletionFuture" }
StreamImpls == (MustCompleteImpls \cup AssertCompletesImpls) \ FutureImpls

\* Method dispatch on the implementation under test.
ImplPoll(impl, self, cx) ==
    CASE impl = "MustComplete as CompletionFuture" ->
             MustComplete_poll(self, cx)
      [] impl = "AssertCompletes as Future" ->
             AssertCompletes_Future_poll(self, cx)
      [] impl = "AssertCompletes as CompletionFuture" ->
             AssertCompletes_CompletionFuture_poll(self, cx)

ImplPollNext(impl, self, cx) ==
    CASE impl = "MustComplete as CompletionStream" ->
             MustComplete_poll_next(self, cx)
      [] impl = "AssertCompletes as Stream" ->
             AssertCompletes_Stream_poll_next(self, cx)
      [] impl = "AssertCompletes as CompletionStream" ->
             AssertCompletes_CompletionStream_poll_next(self, cx)

ImplSizeHint(impl, self) ==
    CASE impl = "MustComplete as CompletionStream" ->
             MustComplete_size_hint(self)
      [] impl = "AssertCompletes as Stream" ->
             AssertCompletes_Stream_size_hint(self)
      [] impl = "AssertCompletes as CompletionStream" ->
             AssertCompletes_CompletionStream_size_hint(self)

\* A wrapper around a new T, and a second T with the same results that is
\* polled directly.  out, hint: what the wrapper's methods last returned;
\* directOut, directHint: what T's own methods returned at the same calls.
NewWrap(impl, script, exact) ==
    [ impl |-> impl,
      self |-> [inner |-> NewInner(script, exact)],   \* Self { inner }
      direct |-> NewInner(script, exact),
      polls |-> 0,            \* polls of the wrapper made so far
      cx |-> 0,               \* the Context of the latest of them
      out |-> Pending, directOut |-> Pending,
      hinted |-> FALSE,       \* size_hint was called since the latest poll
      hint |-> InnerSizeHint(NewInner(script, exact)),
      directHint |-> InnerSizeHint(NewInner(script, exact)) ]

WrapInit ==
    /\ DriverInit
    /\ ThreadsInit
    /\ wrap \in { NewWrap(impl, script, exact) :
                     impl \in FutureImpls, script \in FutureScripts,
                     exact \in {FALSE} }
               \cup
               { NewWrap(impl, script, exact) :
                     impl \in StreamImpls, script \in StreamScripts,
                     exact \in BOOLEAN }

\* The caller polls the wrapped future with some Context (the same call is
\* made on the unwrapped one); a completed future is not polled again.
Poll ==
    /\ wrap.impl \in FutureImpls
    /\ wrap.polls < Len(wrap.direct.script)
    /\ \E cx \in Contexts :
          LET r == ImplPoll(wrap.impl, wrap.self, cx)
              d == InnerPoll(wrap.direct, cx)
          IN  wrap' = [wrap EXCEPT !.self = r.self, !.out = r.result,
                                   !.direct = d.state, !.directOut = d.result,
                                   !.cx = cx, !.polls = @ + 1,
                                   !.hinted = FALSE]
    /\ UNCHANGED << driverVars, threadVars >>

\* The same for a stream, up to its Ready(None).
PollNext ==
    /\ wrap.impl \in StreamImpls
    /\ wrap.polls < Len(wrap.direct.script)
    /\ \E cx \in Contexts :
          LET r == ImplPollNext(wrap.impl, wrap.self, cx)
              d == InnerPoll(wrap.direct, cx)
          IN  wrap' = [wrap EXCEPT !.self = r.self, !.out = r.result,
                                   !.direct = d.state, !.directOut = d.result,
                                   !.cx = cx, !.polls = @ + 1,
                                   !.hinted = FALSE]
    /\ UNCHANGED << driverVars, threadVars >>

\* The caller asks the wrapped stream, and the unwrapped one, for size_hint.
SizeHint ==
    /\ wrap.impl \in StreamImpls
    /\ ~wrap.hinted
    /\ wrap' = [wrap EXCEPT !.hint = ImplSizeHint(wrap.impl, wrap.self),
                            !.directHint = InnerSizeHint(wrap.direct),
                            !.hinted = TRUE]
    /\ UNCHANGED << driverVars, threadVars >>

\* ------------------------------------- block_on on several threads
\* The same code as above with the thread made explicit: CACHE is a
\* thread_local, wake_pair records thread::current(), a wake unparks the
\* recorded thread.  A wake is one step here (its interleaving with park()
\* is what Spec is about), and a poll may report either result.

TStack(t) == threads[t].stack
TDepth(t) == Len(TStack(t))
TTop(t) == TStack(t)[TDepth(t)]

\* Thread t is running its own code or is inside a poll: it can call
\* block_on, or use a clone it holds.
TRunning(t) == IF TDepth(t) = 0 THEN TRUE ELSE TTop(t).pc = "polling"

\* Mutant: CACHE is a plain static: every thread sees the first thread's.
CacheShared(t) == 1

\* thread_local! { static CACHE } (lines 24-26): the instance thread t sees.
CacheOf(t) == t

\* inner.sleeping_thread.unpark() (line 99), called on thread u: the thread
\* that is resumed.
UnparkTarget(inner, u) == inner.sleeping_thread

\* wake_pair() run by thread t (lines 54-66): the new WakerInner, with its
\* one Parker.  creator is history: the thread that ran wake_pair.
NewWakerInner(t) ==
    [ live |-> TRUE, woken |-> FALSE,
      sleeping_thread |-> t,      \* thread::current()
      creator |-> t, parkers |-> 1, clones |-> 0 ]

TFree(p) == ~inners[p].live
TFreshPair ==
    CHOOSE p \in TPairs : TFree(p) /\ \A q \in TPairs : TFree(q) => p <= q

\* The WakerInner after one of its owners went away: released with the last.
AfterDrop(inner) ==
    IF inner.parkers = 0 /\ inner.clones = 0 THEN NoInner ELSE inner

\* block_on called by thread t, up to and including the start of its first
\* poll (lines 21-46).
TBlockOn(t) ==
    /\ tcount.calls < ThreadCalls
    /\ TDepth(t) < MaxDepth
    /\ TRunning(t)
    /\ tcount' = [tcount EXCEPT !.calls = @ + 1]
    /\ LET c == CacheOf(t)
           p == TFreshPair
       IN  IF threads[c].cache = 0
              THEN /\ inners' = [inners EXCEPT ![p] = NewWakerInner(t)]
                   /\ threads' =
                        [threads EXCEPT
                           ![c].cache = p, ![c].borrowed = TRUE,
                           ![t].stack = Append(@, [pair |-> p, cached |-> TRUE,
                                                   pc |-> "polling"])]
           ELSE IF TryBorrowMut(threads[c].borrowed)
              THEN /\ threads' =
                        [threads EXCEPT
                           ![c].borrowed = TRUE,
                           ![t].stack = Append(@, [pair |-> threads[c].cache,
                                                   cached |-> TRUE,
                                                   pc |-> "polling"])]
                   /\ UNCHANGED inners
              ELSE /\ inners' = [inners EXCEPT ![p] = NewWakerInner(t)]
                   /\ threads' =
                        [threads EXCEPT
                           ![t].stack = Append(@, [pair |-> p, cached |-> FALSE,
                                                   pc |-> "polling"])]
    /\ UNCHANGED << driverVars, wrap >>

\* waker_clone during a poll on thread t; the clone can go to any thread.
TWakerClone(t) ==
    /\ TDepth(t) > 0 /\ TTop(t).pc = "polling"
    /\ tcount.clones < ThreadClones
    /\ tcount' = [tcount EXCEPT !.clones = @ + 1]
    /\ inners' = [inners EXCEPT ![TTop(t).pair].clones = @ + 1]
    /\ UNCHANGED << threads, driverVars, wrap >>

\* The poll returns Pending: parker.park() is called (line 49).
TPollPending(t) ==
    /\ TDepth(t) > 0 /\ TTop(t).pc = "polling"
    /\ threads' = [threads EXCEPT ![t].stack[TDepth(t)].pc = "park"]
    /\ UNCHANGED << inners, tcount, driverVars, wrap >>

\* The poll returns Ready: block_on returns (line 47); the RefMut, or the
\* call's own pair (its Parker and Waker), is dropped.
TPollReady(t) ==
    /\ TDepth(t) > 0 /\ TTop(t).pc = "polling"
    /\ IF TTop(t).cached
          THEN /\ threads' =
                    [threads EXCEPT
                       ![t].stack = SubSeq(@, 1, TDepth(t) - 1),
                       ![CacheOf(t)].borrowed = FALSE]
               /\ UNCHANGED inners
          ELSE /\ threads' =
                    [threads EXCEPT ![t].stack = SubSeq(@, 1, TDepth(t) - 1)]
               /\ inners' =
                    [inners EXCEPT ![TTop(t).pair] =
                        AfterDrop([@ EXCEPT !.parkers = 0])]
    /\ UNCHANGED << tcount, driverVars, wrap >>

\* Parker::park on thread t: the swap (line 75), then the return to the
\* poll or the call of thread::park().
TParkSwap(t) ==
    /\ TDepth(t) > 0 /\ TTop(t).pc = "park"
    /\ inners' = [inners EXCEPT ![TTop(t).pair].woken = ParkStore(@)]
    /\ threads' =
         [threads EXCEPT ![t].stack[TDepth(t)].pc =
             IF ParkExits(inners[TTop(t).pair].woken, 0)
                THEN "polling" ELSE LoopBody]
    /\ UNCHANGED << tcount, driverVars, wrap >>

\* thread::park() on thread t returns: on t's token, or spuriously.
TThreadPark(t, spuriously) ==
    /\ TDepth(t) > 0 /\ TTop(t).pc = "suspend"
    /\ spuriously \/ threads[t].token
    /\ threads' =
         [threads EXCEPT
            ![t].token = IF spuriously THEN @ ELSE FALSE,
            ![t].stack[TDepth(t)].pc = "park"]
    /\ UNCHANGED << inners, tcount, driverVars, wrap >>

\* waker_wake on a clone of pair p, called by thread u (lines 92-101).
TWake(u, p) ==
    /\ TRunning(u)
    /\ inners[p].clones > 0
    /\ inners' = [inners EXCEPT ![p] =
                    AfterDrop([@ EXCEPT !.woken = WakeStore(@),
                                        !.clones = @ - 1])]
    /\ IF WakeUnparks(inners[p].woken)
          THEN threads' =
                 [threads EXCEPT ![UnparkTarget(inners[p], u)].token = TRUE]
          ELSE UNCHANGED threads
    /\ UNCHANGED << tcount, driverVars, wrap >>

\* waker_drop of a clone of pair p (lines 102-104).
TWakerDrop(p) ==
    /\ inners[p].clones > 0
    /\ inners' = [inners EXCEPT ![p] = AfterDrop([@ EXCEPT !.clones = @ - 1])]
    /\ UNCHANGED << threads, tcount, driverVars, wrap >>

\* ------------------------------------------------------ specifications

\* Spec: calls made one after the other (all on the cached pair), any
\* operation, any use of the clones by the other threads.
Next ==
    \/ \E op \in OpsUpTo(MaxPending) \cup {NeverOp} : BlockOn(op, 1, MaxCalls)
    \/ PollBegin
    \/ waker_clone(MaxClones, MaxClones, MaxClones)
    \/ PollPending(0)
    \/ PollReady
    \/ ParkSwap
    \/ ThreadParkReturn
    \/ ThreadParkSpurious(MaxSpurious)
    \/ \E p \in Pairs, byValue \in BOOLEAN : WakeSwap(p, byValue, MaxClones)
    \/ \E p \in Pairs, byValue \in BOOLEAN : WakeUnpark(p, byValue)
    \/ \E p \in Pairs : WakeDrop(p)
    \/ \E p \in Pairs : waker_drop(p)

Spec == Init /\ [][Next]_vars

\* LiveSpec: the environment of the liveness claims.  Every operation
\* completes after finitely many polls; a poll that reports "not yet" has
\* made at least one clone of the Waker by the time it returns, and every
\* clone is passed to waker_wake (LiveBudget clones are enough for every
\* poll to make LiveHandles of them).  The driver thread and the threads that
\* hold clones keep running (weak fairness of each of their steps); the calls
\* themselves and spurious returns of thread::park() are not forced.
LiveBudget == LiveCalls * (LivePending + 1) * LiveHandles

LiveNext ==
    \/ \E op \in OpsUpTo(LivePending) : BlockOn(op, 1, LiveCalls)
    \/ PollBegin
    \/ waker_clone(LiveBudget, LiveHandles, LiveHandles)
    \/ PollPending(1)
    \/ PollReady
    \/ ParkSwap
    \/ ThreadParkReturn
    \/ ThreadParkSpurious(LiveSpurious)
    \/ \E p \in Pairs : WakeSwap(p, TRUE, 0)
    \/ \E p \in Pairs : WakeUnpark(p, TRUE)
    \/ \E p \in Pairs : WakeDrop(p)

LiveFairness ==
    /\ WF_vars(PollBegin)
    /\ WF_vars(waker_clone(LiveBudget, LiveHandles, LiveHandles))
    /\ WF_vars(PollPending(1))
    /\ WF_vars(PollReady)
    /\ WF_vars(ParkSwap)
    /\ WF_vars(ThreadParkReturn)
    /\ \A p \in Pairs : /\ WF_vars(WakeSwap(p, TRUE, 0))
                        /\ WF_vars(WakeUnpark(p, TRUE))
                        /\ WF_vars(WakeDrop(p))

LiveSpec == Init /\ [][LiveNext]_vars /\ LiveFairness

\* FairSpec: Spec with the driver thread kept running inside park().
FairSpec == Spec /\ WF_vars(ParkSwap) /\ WF_vars(ThreadParkReturn)

\* NestSpec: block_on calls nested in the polls of enclosing calls.
NestNext ==
    \/ \E op \in OpsUpTo(NestPending) : BlockOn(op, MaxDepth, NestCalls)
    \/ PollBegin
    \/ waker_clone(NestClones, NestClones, NestClones)
    \/ PollPending(0)
    \/ PollReady
    \/ ParkSwap
    \/ ThreadParkReturn
    \/ \E p \in Pairs : WakeSwap(p, TRUE, 0)
    \/ \E p \in Pairs : WakeUnpark(p, TRUE)
    \/ \E p \in Pairs : WakeDrop(p)

NestSpec == Init /\ [][NestNext]_vars

\* NestLiveSpec: LiveSpec's environment for nested calls.  A poll may clone
\* the Waker, make a nested call and only then report "not yet"; each clone
\* is passed to waker_wake by another thread, at any time.  The operations
\* are those of OnceOps: one report is what it takes for a call to park and
\* to need a wake on its own pair while a wake on another pair arrives.
OnceOps == OpsUpTo(1)

\* One clone per poll and per nesting level is enough for every "not yet".
NestLiveBudget == NestCalls * 2

NestLiveNext ==
    \/ \E op \in OnceOps : BlockOn(op, MaxDepth, NestCalls)
    \/ PollBegin
    \/ waker_clone(NestLiveBudget, 1, MaxDepth)
    \/ PollPending(1)
    \/ PollReady
    \/ ParkSwap
    \/ ThreadParkReturn
    \/ \E p \in Pairs : WakeSwap(p, TRUE, 0)
    \/ \E p \in Pairs : WakeUnpark(p, TRUE)
    \/ \E p \in Pairs : WakeDrop(p)

\* The steps of the driver thread inside a block_on call.
NestLiveDriver ==
    \/ PollBegin
    \/ waker_clone(NestLiveBudget, 1, MaxDepth)
    \/ PollPending(1)
    \/ PollReady
    \/ ParkSwap
    \/ ThreadParkReturn

\* The driver thread keeps running, and so do the threads that hold clones:
\* it is enough that, while some of them can take a step of a kind, one does.
NestLiveFairness ==
    /\ WF_vars(NestLiveDriver)
    /\ WF_vars(\E p \in Pairs : WakeSwap(p, TRUE, 0))
    /\ WF_vars(\E p \in Pairs : WakeUnpark(p, TRUE))
    /\ WF_vars(\E p \in Pairs : WakeDrop(p))

NestLiveSpec == Init /\ [][NestLiveNext]_vars /\ NestLiveFairness

\* PairSpec: NestSpec with every use another thread can make of a clone
\* (waker_wake, waker_wake_by_ref on a clone it keeps, waker_drop), so that
\* a transient pair's WakerInner is released by the returning call or by
\* the last clone, whichever comes last.
PairNext ==
    \/ \E op \in OpsUpTo(NestPending) : BlockOn(op, MaxDepth, NestCalls)
    \/ PollBegin
    \/ waker_clone(NestClones, NestClones, NestClones)
    \/ PollPending(0)
    \/ PollReady
    \/ ParkSwap
    \/ ThreadParkReturn
    \/ \E p \in Pairs, byValue \in BOOLEAN : WakeSwap(p, byValue, NestClones)
    \/ \E p \in Pairs, byValue \in BOOLEAN : WakeUnpark(p, byValue)
    \/ \E p \in Pairs : WakeDrop(p)
    \/ \E p \in Pairs : waker_drop(p)

PairSpec == Init /\ [][PairNext]_vars

\* WrapSpec: one MustComplete or AssertCompletes value, through one of its
\* trait implementations, around any inner future or stream, polled to
\* completion with any Contexts, size_hint asked at any point.
WrapNext == Poll \/ PollNext \/ SizeHint

WrapSpec == WrapInit /\ [][WrapNext]_vars

\* ThreadSpec: block_on called on any of the threads, nested or not; clones
\* used by any running thread.
ThreadNext ==
    \/ \E t \in Threads : TBlockOn(t)
    \/ \E t \in Threads : TWakerClone(t)
    \/ \E t \in Threads : TPollPending(t)
    \/ \E t \in Threads : TPollReady(t)
    \/ \E t \in Threads : TParkSwap(t)
    \/ \E t \in Threads, spuriously \in BOOLEAN : TThreadPark(t, spuriously)
    \/ \E u \in Threads, p \in TPairs : TWake(u, p)
    \/ \E p \in TPairs : TWakerDrop(p)

ThreadSpec == Init /\ [][ThreadNext]_vars

\* -------------------------------------------------------------- claims

Frames == { stack[d] : d \in 1..Depth }
InPark(f) == f.pc \in {"park", "suspend"}

\* C1 (no missed wakeup).  When a wake's swap on the pair was made after the
\* previous park() returned and before park() is called, that park() call
\* never reaches thread::park(): its first swap makes it return.
NoMissedWakeup ==
    \A f \in Frames : f.pc = "suspend" => ~f.pre

\* A park() call that followed a wake has returned after one swap; the wake
\* has run to its end (its unpark left the token, which nothing consumed).
NoMissedWakeupWitness ==
    /\ Depth > 0 /\ Top.pc = "poll" /\ Top.parks > 0
    /\ Top.pre /\ Top.swaps = 1 /\ token
    /\ \A p \in Pairs : wakingV[p] + wakingR[p] = 0

\* C4.  An operation that is complete on its first poll: block_on returns
\* that poll's output after exactly one poll, and park() is never called
\* (the call is never at the swap of park() nor inside thread::park()).
FirstPollReady ==
    /\ \A f \in Frames :
          (~f.never /\ f.need = 0) =>
              /\ f.pc \in {"poll", "polling"}
              /\ f.polls <= 1 /\ f.parks = 0 /\ f.swaps = 0
    /\ (last.depth > 0 /\ last.need = 0) =>
          /\ last.polls = 1 /\ last.parks = 0
          /\ last.out = last.value

\* Such a call has returned, on a cached pair whose flag an earlier call left
\* set.
FirstPollReadyWitness ==
    /\ last.depth > 0 /\ last.need = 0 /\ last.out = 2
    /\ woken[last.pair]

\* C5 (coalescing).  Of the K >= 1 wake calls whose swap falls between two
\* consecutive swaps of park() on a pair (so: of those made after one park()
\* returned and before the next is called), exactly one calls unpark.
CoalescedResume ==
    \A p \in Pairs :
        /\ wakesSince[p] >= 1 => unparksSince[p] = 1
        /\ wakesSince[p] = 0 => unparksSince[p] = 0

\* Two wakes were made between two park() calls, and the one unpark is done.
CoalescedResumeWitness ==
    /\ Depth > 0 /\ Top.pc \in {"poll", "polling"} /\ Top.parks >= 1
    /\ wakesSince[Top.pair] >= 2 /\ unparksSince[Top.pair] = 1
    /\ wakingV[Top.pair] + wakingR[Top.pair] = 0
    /\ token

\* C7.  park() is left only by a swap of its own that read true, hence only
\* if a wake's swap was made since the previous swap of park(); a return of
\* thread::park(), spurious or through a token, only leads to the next swap.
ParkReturnsOnlyOnFlag ==
    [][ (Depth > 0 /\ Depth' = Depth /\ InPark(Top) /\ ~InPark(Top'))
        => /\ Top.pc = "park"
           /\ woken[Top.pair]
           /\ wakesSince[Top.pair] >= 1
           /\ Top'.pc = "poll" ]_vars

\* A park() call whose thread::park() returned spuriously has swapped again
\* and returned.
ParkReturnsOnlyOnFlagWitness ==
    /\ Depth > 0 /\ Top.pc = "poll" /\ Top.parks > 0
    /\ Top.swaps >= 2 /\ spurious > 0

\* C9.  block_on returns only from a poll that reported completion, with
\* that poll's output, and that poll is the operation's first to report it
\* (polls = need + 1: it is not polled again); a call on an operation that
\* never completes does not return, whatever wakes arrive.
ReturnsOnlyOnReady ==
    [][ /\ Depth' < Depth =>
              /\ Depth' = Depth - 1
              /\ Top.pc = "polling"
              /\ PollResult(Top) = "Ready" /\ ~Top.never
              /\ Top.polls = Top.need + 1
              /\ last'.out = Top.value /\ last'.depth = Depth
        /\ \A d \in 1..Depth' :
              ~stack'[d].never => stack'[d].polls <= stack'[d].need + 1
      ]_vars

\* An earlier call has returned, and the call in progress, on an operation
\* that never completes, is in its second park() after a wake ended the first.
ReturnsOnlyOnReadyWitness ==
    /\ last.depth = 1 /\ last.need >= 1
    /\ Depth = 1 /\ Top.never /\ Top.parks = 2
    /\ Top.pc = "suspend"

\* C10.  A park() call during which no wake step and no spurious return
\* happens makes at most two swaps (the second after a stale token made
\* thread::park() return at once), and after the second it is inside
\* thread::park() with no token left: it stays there.
ParkDoesNotSpin ==
    \A f \in Frames :
        f.clean => /\ f.swaps <= 2
                   /\ f.swaps = 2 => (f.pc = "suspend" /\ ~token)

\* A park() call drained a stale token and is suspended after its second swap.
ParkDoesNotSpinWitness ==
    /\ Depth > 0 /\ Top.clean /\ Top.swaps = 2 /\ Top.pc = "suspend"

\* C2.  In the environment of LiveSpec (a wake per "not yet" report, made by
\* another thread at any time after the poll got the Waker), a call on an
\* operation that reports "not yet" N times returns the operation's output,
\* after N + 1 polls and N calls of park(); and while it runs, park() has
\* been called at most once per "not yet" report.
ReturnsAfterNParks ==
    /\ \A f \in Frames :
          f.parks <= (IF f.pc = "polling" THEN f.polls - 1 ELSE f.polls)
    /\ last.depth > 0 =>
          /\ last.out = last.value
          /\ last.polls = last.need + 1
          /\ last.parks = last.need

\* The first call was on an operation with N = 2 and has returned; exactly
\* two clones were made (one in each poll that reported "not yet") and both
\* wakes have run to their end.
ReturnsAfterNParksWitness ==
    /\ last.depth = 1 /\ last.value = 1 /\ last.need = 2 /\ calls = 1
    /\ clones = 2 /\ LiveClones = 0

\* C3 (liveness).  Under LiveSpec's fairness every block_on call returns.
DriverReturns == (Depth > 0) ~> (Depth = 0)

\* A call was suspended in thread::park() when a wake's swap had already been
\* made and its unpark not yet: the interleaving a lost wakeup would need.
DriverReturnsWitness ==
    /\ Depth > 0 /\ Top.pc = "suspend" /\ ~token
    /\ woken[Top.pair] /\ wakingV[Top.pair] > 0

\* C6.  The swap that lets park() return consumes the pending wake whatever
\* the number of wakes that set it: the flag is false afterwards.  A park()
\* call in progress with no wake swap since park()'s last swap does not
\* return; with the driver thread kept running it comes to rest inside
\* thread::park() with no token (a token an earlier unpark left costs one
\* more swap), unless a wake is made.
ParkConsumesWake ==
    /\ [][ /\ (Depth > 0 /\ InPark(Top) /\ wakesSince[Top.pair] = 0)
              => (Depth' = Depth /\ InPark(Top'))
           /\ (Depth > 0 /\ Depth' = Depth /\ InPark(Top) /\ ~InPark(Top'))
              => (~woken'[Top.pair] /\ wakesSince'[Top.pair] = 0)
         ]_vars
    /\ (Depth > 0 /\ InPark(Top) /\ wakesSince[Top.pair] = 0)
          ~> (Depth > 0 /\ \/ (Top.pc = "suspend" /\ ~token)
                           \/ wakesSince[Top.pair] > 0)

\* Two wakes were made and one park() returned on them; the next park() call
\* found the token of the one unpark, swapped again and is suspended.
ParkConsumesWakeWitness ==
    /\ Depth > 0 /\ Top.pc = "suspend" /\ Top.parks >= 2 /\ Top.many
    /\ Top.clean /\ Top.swaps = 2 /\ ~token
    /\ wakesSince[Top.pair] = 0

\* C8.  Nested calls: the calls active on the thread use pairwise distinct
\* pairs, the outermost the cached one (it holds the borrow) and every nested
\* one a pair of its own; each call returns its own operation's output; and
\* while a call is nested in others, no step clears the woken flag of an
\* enclosing call's pair.
NestedCallsIndependent ==
    /\ [](/\ \A d \in 1..Depth :
               /\ stack[d].cached <=> d = 1
               /\ stack[d].cached => (cacheBorrowed /\ stack[d].pair = cachePair)
               /\ strong[stack[d].pair] >= 2
               /\ \A e \in 1..Depth : stack[d].pair = stack[e].pair => d = e
          /\ last.depth > 0 => last.out = last.value)
    /\ [][ \A d \in 1..(Depth - 1) :
               woken[stack[d].pair] => woken'[stack[d].pair] ]_vars

\* A nested call has parked and returned its output while the enclosing
\* call's flag, set by a wake, stayed set.
NestedCallsIndependentWitness ==
    /\ Depth = 1 /\ Top.pc = "polling" /\ woken[Top.pair]
    /\ last.depth = 2 /\ last.parks >= 1 /\ last.out = 2
    /\ last.pair # Top.pair

\* The (Parker, Waker) tuples that refer to allocation p: the one in CACHE,
\* or the new_pair_storage of an active call.
ParkSides(p) ==
    IF \/ cacheInit /\ cachePair = p
       \/ \E d \in 1..Depth : stack[d].pair = p
       THEN 1 ELSE 0

\* The clones of p's Waker that other threads own, inside a vtable call or not.
Clones(p) == held[p] + wakingV[p] + wakingR[p] + dropping[p]

\* C11.  The strong count of every WakerInner is one for its Parker, one for
\* the Waker made with it, and one per clone; it is zero (the WakerInner is
\* released) exactly when none of these is left; every active call runs on
\* an allocated pair; and on a released allocation no step does anything
\* except Arc::new (no clone, wake, swap of park(), or second release).
RefCountExact ==
    /\ [](/\ \A p \in Pairs :
               /\ strong[p] = 2 * ParkSides(p) + Clones(p)
               /\ Free(p) <=> (ParkSides(p) = 0 /\ Clones(p) = 0)
          /\ \A f \in Frames : ~Free(f.pair))
    /\ [][ \A p \in Pairs :
              Free(p) => /\ Clones(p)' = 0
                         /\ ~woken'[p] /\ wakesSince'[p] = 0
                         /\ strong'[p] \in {0, 2}
                         /\ strong'[p] = 2 => ParkSides(p)' = 1 ]_vars

\* A nested call has returned and dropped its transient pair's Parker and
\* Waker while another thread still holds a clone: the WakerInner lives on
\* with count one, and its flag is set by a wake made after the return.
RefCountExactWitness ==
    /\ last.depth = 2 /\ last.pair # cachePair
    /\ ParkSides(last.pair) = 0
    /\ strong[last.pair] = 1 /\ wakingV[last.pair] = 1 /\ woken[last.pair]

\* C12.  A wake's swap (the only step that adds to wakesSince), by value or
\* by reference, sets the flag, leaves the count and the token alone and
\* goes on to unpark exactly when it read false; the unpark sets the token
\* and nothing else.  The two differ only in what becomes of the handle:
\* wake_by_ref leaves it with its thread (the count is never changed),
\* wake passes it to waker_drop, which lowers the count by exactly one.
WakeIsWakeByRefThenDrop ==
    [][ \A p \in Pairs :
        /\ wakesSince'[p] = wakesSince[p] + 1 =>
              /\ woken'[p] /\ strong' = strong /\ token' = token
              /\ wakingV'[p] + wakingR'[p] =
                    wakingV[p] + wakingR[p] + (IF woken[p] THEN 0 ELSE 1)
              /\ IF clones' = clones
                    THEN /\ held'[p] = held[p] - 1
                         /\ wakingR'[p] = wakingR[p]
                         /\ wakingV'[p] + dropping'[p] =
                               wakingV[p] + dropping[p] + 1
                    ELSE /\ held'[p] + wakingR'[p] = held[p] + wakingR[p]
                         /\ wakingV'[p] = wakingV[p]
                         /\ dropping'[p] = dropping[p]
        /\ wakingV'[p] + wakingR'[p] < wakingV[p] + wakingR[p] =>
              /\ token' /\ strong' = strong /\ woken' = woken
              /\ wakingV'[p] < wakingV[p] =>
                    (dropping'[p] = dropping[p] + 1 /\ held' = held)
              /\ wakingR'[p] < wakingR[p] =>
                    (held'[p] = held[p] + 1 /\ dropping' = dropping)
        /\ dropping'[p] < dropping[p] =>
              /\ strong'[p] = strong[p] - 1
              /\ dropping'[p] = dropping[p] - 1
              /\ token' = token /\ woken' = woken /\ held' = held
      ]_vars

\* The first poll made one clone; its thread called wake_by_ref on it, kept
\* it, then called wake on it, and waker_drop has run: both swaps are done,
\* the first one's unpark left the token, and the count is back to two.
WakeIsWakeByRefThenDropWitness ==
    /\ calls = 1 /\ Depth = 1 /\ Top.pc = "polling" /\ Top.polls = 1
    /\ Top.clonesPoll = 1 /\ clones = 2
    /\ Clones(Top.pair) = 0 /\ strong[Top.pair] = 2
    /\ wakesSince[Top.pair] = 2 /\ unparksSince[Top.pair] = 1
    /\ woken[Top.pair] /\ token

\* C15.  The flag of a WakerInner that exists before and after a step is
\* changed only by a wake's swap, to true, and by the swap of a park() call
\* running on that pair, to false.  So the steps that change a count or the
\* call stack (waker_clone, waker_drop, the drop of a transient pair's
\* Parker and Waker, the start and the return of a block_on call) leave
\* every such flag as it is.
FlagChangedOnlyBySwaps ==
    [][ \A p \in Pairs :
          (~Free(p) /\ ~Free(p)') =>
             /\ (~woken[p] /\ woken'[p]) =>
                    wakesSince'[p] = wakesSince[p] + 1
             /\ (woken[p] /\ ~woken'[p]) =>
                    /\ Depth > 0 /\ Depth' = Depth
                    /\ Top.pair = p /\ Top.pc = "park"
                    /\ Top'.swaps = Top.swaps + 1
             /\ (strong'[p] # strong[p] \/ Depth' # Depth) =>
                    woken'[p] = woken[p]
      ]_vars

\* A wake set the cached pair's flag and dropped its handle; the call it was
\* made for has returned, the next call has started and cloned the Waker:
\* the flag is still set.
FlagChangedOnlyBySwapsWitness ==
    /\ calls = 2 /\ Depth = 1 /\ last.depth = 1
    /\ Top.pc = "polling" /\ Top.polls = 1 /\ Top.clonesPoll = 1
    /\ clones = 2 /\ held[Top.pair] = 1 /\ Clones(Top.pair) = 1
    /\ woken[Top.pair]

\* C16.  At most one active call has the borrow of CACHE, and the borrow is
\* out exactly while such a call is active.  A call that starts takes the
\* cached pair exactly when the borrow is not out, and otherwise makes a
\* pair of its own (a new allocation, not the cached one).  A call that
\* returns gives back the borrow if it had it, and otherwise drops the two
\* Arcs of its pair (Parker and Waker).  So with no call active the borrow
\* is free, and the next call takes the cached pair.
OneBorrowOfCache ==
    /\ [](/\ Cardinality({ d \in 1..Depth : stack[d].cached }) <= 1
          /\ cacheBorrowed <=> \E d \in 1..Depth : stack[d].cached
          /\ Depth = 0 => ~cacheBorrowed)
    /\ [][ /\ Depth' = Depth + 1 =>
                /\ Top'.cached <=> ~cacheBorrowed
                /\ Top'.cached => (cacheBorrowed' /\ Top'.pair = cachePair')
                /\ ~Top'.cached =>
                      /\ Top'.pair # cachePair /\ cachePair' = cachePair
                      /\ Free(Top'.pair) /\ strong'[Top'.pair] = 2
           /\ Depth' = Depth - 1 =>
                /\ Top.cached => (~cacheBorrowed' /\ strong' = strong)
                /\ ~Top.cached =>
                      /\ cacheBorrowed' = cacheBorrowed
                      /\ strong'[Top.pair] = strong[Top.pair] - 2
         ]_vars

\* The second call was made after the first returned: it has the borrow and
\* runs on the cached pair, which the first call used.
OneBorrowOfCacheWitness ==
    /\ calls = 2 /\ Depth = 1 /\ last.depth = 1
    /\ Top.cached /\ Top.value = 2 /\ Top.pair = last.pair
    /\ Top.parks >= 1

\* C17.  A pair is created (an allocation goes from released to count two)
\* only by the thread's first call, for CACHE, or by a call that starts while
\* another call is active and holds the borrow.  The cached pair stays in
\* CACHE, allocated, from then on.  So calls made one after the other create
\* one pair in total.
PairCreatedOnce ==
    /\ [](calls >= 1 => (cacheInit /\ strong[cachePair] >= 2))
    /\ [][ /\ \A p \in Pairs :
                (Free(p) /\ ~Free(p)') =>
                    \/ calls = 0 /\ Depth = 0 /\ cachePair' = p
                    \/ /\ Depth > 0 /\ Depth' = Depth + 1
                       /\ cacheBorrowed /\ Top'.pair = p
           /\ cacheInit => (cacheInit' /\ cachePair' = cachePair)
         ]_vars

\* Two calls were made one after the other, the second has parked and been
\* woken: the only allocation is the cached pair.
PairCreatedOnceWitness ==
    /\ calls = 2 /\ Depth = 1 /\ last.depth = 1
    /\ Top.polls = 2 /\ Top.pc = "polling"
    /\ \A p \in Pairs : ~Free(p) => p = cachePair

\* A call that has not polled yet.
AtFirstPoll(f) == f.pc = "poll" /\ f.polls = 0

\* C19 as claimed: when a call is about to make its first poll, the flag of
\* its pair is false, whichever pair that is.
FirstPollFlagFalse ==
    \A f \in Frames : AtFirstPoll(f) => ~woken[f.pair]

\* C19, amended.  When a call is about to make its first poll on a pair
\* created for it (the thread's first call, or a nested call), the flag is
\* false.  When the flag is set at that point, the call is on the cached pair
\* after earlier calls, and a wake's swap was made on that pair since the
\* last swap of park(): the wake of an earlier operation is still pending,
\* and the call's first park() will consume it.
FirstPollFlagFalseOnNewPair ==
    \A f \in Frames :
        AtFirstPoll(f) =>
            /\ (~f.cached \/ f.value = 1) => ~woken[f.pair]
            /\ woken[f.pair] =>
                  /\ f.cached /\ f.value > 1
                  /\ wakesSince[f.pair] >= 1

\* A nested call is about to make its first poll, on its new pair with the
\* flag false, while the enclosing call's flag is set.
FirstPollFlagFalseOnNewPairWitness ==
    /\ Depth = 2 /\ AtFirstPoll(Top) /\ ~Top.cached
    /\ ~woken[Top.pair] /\ woken[stack[1].pair]

\* C20.  Nested calls share the thread's one park token.  (1) A park() call
\* returns only on a swap that read its own pair's flag as true, so a wake
\* on an enclosing call's pair does not end it.  (2) That wake is not lost:
\* the enclosing pair's flag stays set until a park() of the enclosing call
\* itself, which then returns on its first swap.  (3) When the thread is
\* suspended and its pair's flag is set, the token is set or the unpark of a
\* wake on that pair is still to come: another pair's wake cannot have used
\* it up.  (4) Under NestLiveSpec's fairness every call returns: whenever
\* calls are active, a state with none active follows.
SharedTokenSafe ==
    /\ [](/\ \A d \in 1..(Depth - 1) :
               wakesSince[stack[d].pair] >= 1 => woken[stack[d].pair]
          /\ \A f \in Frames : f.pc = "suspend" => ~f.pre
          /\ (Depth > 0 /\ Top.pc = "suspend" /\ woken[Top.pair]) =>
                (token \/ wakingV[Top.pair] + wakingR[Top.pair] > 0))
    /\ [][ (Depth > 0 /\ Depth' = Depth /\ InPark(Top) /\ ~InPark(Top'))
             => (Top.pc = "park" /\ woken[Top.pair]) ]_vars
    /\ (Depth > 0) ~> (Depth = 0)

\* The nested call's thread::park() returned on the token of a wake made on
\* the enclosing call's pair; the nested call swapped its own flag, read
\* false and is suspended again, with the enclosing pair's flag still set.
SharedTokenSafeWitness ==
    /\ Depth = 2 /\ Top.pc = "suspend" /\ Top.swaps = 2 /\ ~token
    /\ wakesSince[Top.pair] = 0 /\ ~woken[Top.pair]
    /\ woken[stack[1].pair] /\ unparksSince[stack[1].pair] = 1
    /\ Clones(stack[1].pair) = 0

\* The wrapper under test has behaved as the unwrapped operation: its latest
\* poll returned what the direct poll returned, which is the next result of
\* the inner operation; the inner operation has been polled once per poll of
\* the wrapper and with the caller's Context (it is in the state the
\* directly polled one is in); and size_hint returned what the inner
\* operation's size_hint returns at this point.
Transparent ==
    /\ wrap.out = wrap.directOut
    /\ wrap.self.inner = wrap.direct
    /\ wrap.self.inner.pos = wrap.polls
    /\ wrap.polls > 0 => /\ wrap.out = wrap.direct.script[wrap.polls]
                         /\ wrap.self.inner.cx = wrap.cx
    /\ wrap.hinted => /\ wrap.hint = wrap.directHint
                      /\ wrap.hint = InnerSizeHint(wrap.direct)

\* C13.  MustComplete, as a CompletionFuture around a Future and as a
\* CompletionStream around a Stream, is transparent at every step.
MustCompleteTransparent ==
    wrap.impl \in MustCompleteImpls => Transparent

\* A MustComplete stream returned an item on its first poll_next, and its
\* size_hint then gave the inner stream's (1, Some(1)).
MustCompleteTransparentWitness ==
    /\ wrap.impl = "MustComplete as CompletionStream"
    /\ wrap.polls = 1 /\ wrap.out.tag = "Some" /\ wrap.out.val = 2
    /\ wrap.hinted /\ wrap.hint = [lo |-> 1, hi |-> 1, some |-> TRUE]

\* C14.  AssertCompletes is transparent at every step in its four trait
\* implementations, and its only state is the inner operation.
AssertCompletesTransparent ==
    wrap.impl \in AssertCompletesImpls =>
        (Transparent /\ DOMAIN wrap.self = {"inner"})

\* An AssertCompletes future polled as a Future returned Pending twice and
\* then Ready, the last poll with the second Context.
AssertCompletesTransparentWitness ==
    /\ wrap.impl = "AssertCompletes as Future"
    /\ wrap.polls = 3 /\ wrap.out = Ready(1) /\ wrap.cx = 2

\* The places that hold the Parker of allocation p: a thread's CACHE, or the
\* new_pair_storage of an active call.
ParkerPlaces(p) ==
    { << t, 0 >> : t \in { u \in Threads : threads[u].cache = p } }
    \cup
    { td \in Threads \X (1..MaxDepth) :
         IF td[2] > TDepth(td[1]) THEN FALSE
         ELSE /\ ~TStack(td[1])[td[2]].cached
              /\ TStack(td[1])[td[2]].pair = p }

\* C18.  Every WakerInner that has its park side has exactly one, in one
\* place; the thread it records is the thread that created it; every call
\* (and so every park()) of a thread runs on a pair that this thread
\* created and that records this thread; and a thread's token is set only
\* by a wake on a pair that this thread created, whichever thread makes the
\* wake.
OwnerThreadIsCreator ==
    /\ [](/\ \A p \in TPairs :
               inners[p].live =>
                  /\ inners[p].sleeping_thread = inners[p].creator
                  /\ inners[p].parkers <= 1
                  /\ Cardinality(ParkerPlaces(p)) = inners[p].parkers
          /\ \A t \in Threads : \A d \in 1..TDepth(t) :
                  /\ inners[TStack(t)[d].pair].live
                  /\ inners[TStack(t)[d].pair].parkers = 1
                  /\ inners[TStack(t)[d].pair].creator = t
                  /\ inners[TStack(t)[d].pair].sleeping_thread = t)
    /\ [][ \A t \in Threads :
              (~threads[t].token /\ threads'[t].token) =>
                  \E p \in TPairs :
                      /\ inners[p].live /\ inners[p].creator = t
                      /\ ~inners[p].woken
                      /\ inners[p].clones > 0 ]_vars

\* Thread 1 is inside thread::park() of a call on its cached pair; its token
\* and the pair's flag were set by a wake that thread 2 made, from inside a
\* poll of thread 2's own call; thread 2's token is not set.
OwnerThreadIsCreatorWitness ==
    /\ TDepth(1) = 1 /\ TTop(1).pc = "suspend"
    /\ inners[TTop(1).pair].woken /\ threads[1].token
    /\ TDepth(2) = 1 /\ TTop(2).pc = "polling" /\ ~threads[2].token
    /\ tcount.clones = 1 /\ \A p \in TPairs : inners[p].clones = 0

=============================================================================
